---- MODULE Spec2Model ----
(***************************************************************************)
(* CYBERRAG: the relevance filter and the search call of                   *)
(* src/src/search.py, and the text chunker, the deobfuscator, the IOC      *)
(* extraction engine and the main ingestion loop of                        *)
(* src/ingestion_process.py.                                               *)
(*                                                                         *)
(* The specifications share the variables:                                 *)
(*   Spec          one call of _filterresults on a hit list                *)
(*   SpecChunk     one call of chunk_text_by_sentence_and_paragraph        *)
(*   SpecIoc       one call of extract_iocs, from the matches on           *)
(*   SpecIocTwice  two calls of extract_iocs on the same matches           *)
(*   SpecIocText   one call of extract_iocs, from the text on              *)
(*   SpecDeob      one call of deobfuscate                                 *)
(*   SpecIngest    runs of the ingestion script on one directory           *)
(*   SpecSearch    one call of search                                      *)
(* Each one leaves the other components idle.                              *)
(***************************************************************************)
EXTENDS Integers, Sequences, FiniteSets, TLC

VARIABLES
    \* _filterresults (src/src/search.py)
    hits,            \* results.objects: the hit list handed to the filter
    fi,              \* position of the for loop over results.objects
    resultdict,      \* the list of row dicts
    hitsdict,        \* doc_name -> number of hits
    final_res,       \* the returned EvidenceMap
    fpc,             \* "loop" | "done" (returned) | "raised" | "idle"
    \* chunk_text_by_sentence_and_paragraph (src/ingestion_process.py)
    text,            \* the input text, a sequence of characters
    max_chunk_size,
    chunks,          \* the returned list of chunks
    cpc,             \* "call" | "done" | "idle"
    \* extract_iocs (src/ingestion_process.py)
    vals,            \* per indicator type, the matches of its pattern in text order
    md,              \* the IndicatorSet under construction
    ki,              \* position of the for loop over IOC_PATTERNS
    ipc,             \* "loop" | "done" | "idle"
    md_prev,         \* the IndicatorSet an earlier call returned for the same text
    calls,           \* the number of calls of extract_iocs on the text so far
    \* deobfuscate (src/ingestion_process.py), applied to text
    deob,            \* the returned string
    dpc,             \* "call" | "done" | "idle"
    \* the main ingestion loop (src/ingestion_process.py), run after run
    dir,             \* the filenames in directory_path
    content,         \* filename -> the text of the PDF
    store,           \* the objects of the collection, in insertion order
    filenames,       \* os.listdir(directory_path), taken once per run
    fidx,            \* position of the for loop over filenames
    extracted_text,
    pdf_name,
    doc_id,
    extracted_iocs,
    doc_chunks,      \* chunks
    ci,              \* position of the for loop over chunks
    vector,
    filecount,
    gpc,             \* "start" | "next" | "chunk" | "insert" | "rename" |
                     \* "finished" | "aborted" | "idle"
    runs,            \* the number of runs started
    log,             \* what the current run has done so far, in order
    \* search (src/src/search.py)
    client,          \* "none" | "open" | "closed"
    spc,             \* "start" | "get_collection" | "embed" | "query" | "close" |
                     \* "filter" | "returned" | "raised" | "idle"
    search_result    \* the returned dict

filterVars == <<hits, fi, resultdict, hitsdict, final_res, fpc>>
chunkVars  == <<text, max_chunk_size, chunks, cpc>>
iocVars    == <<vals, md, ki, ipc, md_prev, calls>>
deobVars   == <<deob, dpc>>
ingestVars == <<dir, content, store, filenames, fidx, extracted_text, pdf_name, doc_id,
                extracted_iocs, doc_chunks, ci, vector, filecount, gpc, runs, log>>
searchVars == <<client, spc, search_result>>
vars       == <<hits, fi, resultdict, hitsdict, final_res, fpc,
                text, max_chunk_size, chunks, cpc, vals, md, ki, ipc, md_prev, calls,
                deob, dpc,
                dir, content, store, filenames, fidx, extracted_text, pdf_name, doc_id,
                extracted_iocs, doc_chunks, ci, vector, filecount, gpc, runs, log,
                client, spc, search_result>>

----------------------------------------------------------------------------
(* Bounds *)

MaxHits == 4
MaxLen == 6
MaxChunkSize == 2
MaxVals == 3
MaxFrags == 3
MaxRuns == 2

----------------------------------------------------------------------------
(* Generic helpers *)

Max(S) == CHOOSE x \in S : \A y \in S : y <= x

Range(s) == {s[i] : i \in 1..Len(s)}

SeqsUpTo(S, n) == UNION {[1..k -> S] : k \in 0..n}

RECURSIVE SeqOfSet(_)
SeqOfSet(S) ==
    IF S = {} THEN <<>>
    ELSE LET x == CHOOSE y \in S : TRUE IN <<x>> \o SeqOfSet(S \ {x})

\* The concatenation of a list of sequences
RECURSIVE Flatten(_)
Flatten(ss) == IF ss = <<>> THEN <<>> ELSE Head(ss) \o Flatten(Tail(ss))

\* The strings made of up to n pieces of a vocabulary
Pieced(vocabulary, n) == {Flatten(fs) : fs \in SeqsUpTo(vocabulary, n)}

RECURSIVE Repeat(_, _)
Repeat(x, n) == IF n = 0 THEN <<>> ELSE <<x>> \o Repeat(x, n - 1)

----------------------------------------------------------------------------
(* The relevance filter: _filterresults                                    *)

Docs == {"A", "B", "C"}
Texts == {"t1", "t2"}

\* obj.properties of a well-formed hit, and of hits lacking a property
GoodHits == [doc_name : Docs, text : Texts]
BadHits == {[text |-> "t1"], [doc_name |-> "A"]}

HasKey(props, k) == k \in DOMAIN props
WellFormed(h) == HasKey(h, "doc_name") /\ HasKey(h, "text")

\* a hits of document "A", then b of "B", then c of "C"
CountedHits(a, b, c) ==
    Repeat([doc_name |-> "A", text |-> "t1"], a)
      \o Repeat([doc_name |-> "B", text |-> "t1"], b)
      \o Repeat([doc_name |-> "C", text |-> "t2"], c)

HitLists ==
    SeqsUpTo(GoodHits \cup BadHits, MaxHits)
      \cup {CountedHits(10, 10, 1), CountedHits(5, 5, 5), CountedHits(3, 2, 1)}

\* hitsdict[doc_name] += 1, or = 1 on KeyError
CountHit(hd, d) ==
    IF d \in DOMAIN hd
    THEN [hd EXCEPT ![d] = @ + 1]
    ELSE [k \in DOMAIN hd \cup {d} |-> IF k = d THEN 1 ELSE hd[k]]

\* list(hitsdict.values())
ValuesList(hd) ==
    LET keys == SeqOfSet(DOMAIN hd)
    IN [i \in 1..Len(keys) |-> hd[keys[i]]]

\* Ten times np.quantile(values, 0.90), method 'linear': the sorted values
\* interpolated at the virtual index 0.9 * (n - 1), in exact arithmetic.
Quantile90x10(values) ==
    LET sorted == SortSeq(values, LAMBDA a, b : a < b)
        n == Len(sorted)
        pos == 9 * (n - 1)
        j == pos \div 10
        r == pos % 10
        lo == sorted[j + 1]
        hi == IF r = 0 THEN lo ELSE sorted[j + 2]
    IN 10 * lo + r * (hi - lo)

\* int(np.quantile(list(hitsdict.values()), 0.90)): truncation of a positive float
Threshold(hd) == Quantile90x10(ValuesList(hd)) \div 10

HighValuesEqual(hd) == {k \in DOMAIN hd : hd[k] = Threshold(hd)}

HighValuesStrict(hd) == {k \in DOMAIN hd : hd[k] > Threshold(hd)}

\* high_values = [key for key, value in hitsdict.items() if value >= int(...)]
HighValues(hd) == {k \in DOMAIN hd : hd[k] >= Threshold(hd)}

DropDuplicatesKeepLast(rows) ==
    LET keep == {i \in 1..Len(rows) : \A j \in (i + 1)..Len(rows) : rows[j] # rows[i]}
        RECURSIVE Pick(_)
        Pick(i) == IF i > Len(rows) THEN <<>>
                   ELSE (IF i \in keep THEN <<rows[i]>> ELSE <<>>) \o Pick(i + 1)
    IN Pick(1)

\* DataFrame.drop_duplicates(): of equal rows the first one stays, in place
DropDuplicates(rows) ==
    LET keep == {i \in 1..Len(rows) : \A j \in 1..(i - 1) : rows[j] # rows[i]}
        RECURSIVE Pick(_)
        Pick(i) == IF i > Len(rows) THEN <<>>
                   ELSE (IF i \in keep THEN <<rows[i]>> ELSE <<>>) \o Pick(i + 1)
    IN Pick(1)

\* res_df.loc[res_df['doc_name'].isin(high_values)]
IsIn(rows, high_values) == SelectSeq(rows, LAMBDA row : row.doc_name \in high_values)

\* dict(zip(res_df['doc_name'], res_df['text'])): a later row overwrites an earlier one
DictZip(rows) ==
    [d \in {rows[i].doc_name : i \in 1..Len(rows)} |->
        rows[Max({i \in 1..Len(rows) : rows[i].doc_name = d})].text]

EmptyMap == <<>>

InitFilterIdle ==
    /\ hits = <<>> /\ fi = 1 /\ resultdict = <<>> /\ hitsdict = EmptyMap
    /\ final_res = EmptyMap /\ fpc = "idle"

InitFilter ==
    /\ hits \in HitLists
    /\ fi = 1
    /\ resultdict = <<>>
    /\ hitsdict = EmptyMap
    /\ final_res = EmptyMap
    /\ fpc = "loop"

FilterLoopStepSkip ==
    /\ fpc = "loop"
    /\ fi <= Len(hits)
    /\ LET props == hits[fi]
       IN IF ~WellFormed(props)
          THEN /\ fi' = fi + 1
               /\ UNCHANGED <<resultdict, hitsdict, fpc>>
          ELSE /\ resultdict' = Append(resultdict,
                     [doc_name |-> props.doc_name, text |-> props.text])
               /\ hitsdict' = CountHit(hitsdict, props.doc_name)
               /\ fi' = fi + 1
               /\ fpc' = fpc
    /\ UNCHANGED <<hits, final_res>>
    /\ UNCHANGED chunkVars /\ UNCHANGED iocVars /\ UNCHANGED deobVars
    /\ UNCHANGED ingestVars /\ UNCHANGED searchVars

\* One iteration of `for obj in results.objects`. A missing property is a
\* KeyError, caught by the function's except clause, logged and raised again.
FilterLoopStep ==
    /\ fpc = "loop"
    /\ fi <= Len(hits)
    /\ LET props == hits[fi]
       IN IF ~WellFormed(props)
          THEN /\ fpc' = "raised"
               /\ UNCHANGED <<resultdict, hitsdict, fi>>
          ELSE /\ resultdict' = Append(resultdict,
                     [doc_name |-> props.doc_name, text |-> props.text])
               /\ hitsdict' = CountHit(hitsdict, props.doc_name)
               /\ fi' = fi + 1
               /\ fpc' = fpc
    /\ UNCHANGED <<hits, final_res>>
    /\ UNCHANGED chunkVars /\ UNCHANGED iocVars /\ UNCHANGED deobVars
    /\ UNCHANGED ingestVars /\ UNCHANGED searchVars

\* After the loop: drop_duplicates, the percentile filter, the mapping.
\* pd.DataFrame([]) has no columns, so with no rows res_df['doc_name'] is a
\* KeyError, which the except clause logs and raises again.
FilterFinish ==
    /\ fpc = "loop"
    /\ fi > Len(hits)
    /\ LET res_df == DropDuplicates(resultdict)
           kept == IF Cardinality(DOMAIN hitsdict) > 0
                   THEN IsIn(res_df, HighValues(hitsdict))
                   ELSE res_df
       IN IF resultdict = <<>>
          THEN fpc' = "raised" /\ final_res' = final_res
          ELSE fpc' = "done" /\ final_res' = DictZip(kept)
    /\ UNCHANGED <<hits, fi, resultdict, hitsdict>>
    /\ UNCHANGED chunkVars /\ UNCHANGED iocVars /\ UNCHANGED deobVars
    /\ UNCHANGED ingestVars /\ UNCHANGED searchVars

----------------------------------------------------------------------------
(* The text chunker: chunk_text_by_sentence_and_paragraph                  *)
(* A string is a sequence of one-character strings.                        *)

Alphabet == {"a", ".", " ", "\n"}

\* whitespace, for \s in a pattern and for str.strip() and str.split()
IsSpace(c) == c \in {" ", "\n", "\t", "\r"}

\* the characters of the lookbehind class [.!?]
IsSentenceEnd(c) == c \in {".", "!", "?"}

RECURSIVE LStrip(_)
LStrip(s) == IF s # <<>> /\ IsSpace(Head(s)) THEN LStrip(Tail(s)) ELSE s

RECURSIVE RStrip(_)
RStrip(s) ==
    IF s # <<>> /\ IsSpace(s[Len(s)]) THEN RStrip(SubSeq(s, 1, Len(s) - 1)) ELSE s

\* str.strip()
Strip(s) == RStrip(LStrip(s))

\* str.split(): the maximal runs of non-whitespace characters
RECURSIVE Words(_)
Words(s) ==
    LET t == LStrip(s)
    IN IF t = <<>> THEN <<>>
       ELSE LET stops == {k \in 1..Len(t) : IsSpace(t[k])}
                k == IF stops = {} THEN Len(t) + 1
                     ELSE CHOOSE x \in stops : \A y \in stops : x <= y
            IN <<SubSeq(t, 1, k - 1)>> \o Words(SubSeq(t, k, Len(t)))

\* " ".join(parts)
RECURSIVE JoinSp(_)
JoinSp(parts) ==
    IF parts = <<>> THEN <<>>
    ELSE IF Len(parts) = 1 THEN parts[1]
    ELSE parts[1] \o <<" ">> \o JoinSp(Tail(parts))

\* Where a match of \n\s*\n that starts at i ends (\s* is greedy), 0 with no match
ParagraphBreakEnd(s, i) ==
    IF s[i] # "\n" THEN 0
    ELSE LET ends == {j \in (i + 1)..Len(s) :
                         s[j] = "\n" /\ \A k \in (i + 1)..(j - 1) : IsSpace(s[k])}
         IN IF ends = {} THEN 0 ELSE Max(ends)

\* Where a match of (?<=[.!?])\s+ that starts at i ends, 0 with no match
SentenceBreakEnd(s, i) ==
    IF i > 1 /\ IsSentenceEnd(s[i - 1]) /\ IsSpace(s[i])
    THEN Max({j \in i..Len(s) : \A k \in i..j : IsSpace(s[k])})
    ELSE 0

\* Where a match of the pattern that starts at i ends, 0 with no match
MatchEnd(pattern, s, i) ==
    IF pattern = "paragraph" THEN ParagraphBreakEnd(s, i) ELSE SentenceBreakEnd(s, i)

\* re.split(pattern, s): the pieces between the leftmost matches; `start` is
\* where the current piece starts, `from` where the search for a match goes on
RECURSIVE ReSplit(_, _, _, _)
ReSplit(pattern, s, start, from) ==
    IF from > Len(s) THEN <<SubSeq(s, start, Len(s))>>
    ELSE LET e == MatchEnd(pattern, s, from)
         IN IF e = 0 THEN ReSplit(pattern, s, start, from + 1)
            ELSE <<SubSeq(s, start, from - 1)>> \o ReSplit(pattern, s, e + 1, e + 1)

\* re.split(r'\n\s*\n', s)
SplitParagraphs(s) == ReSplit("paragraph", s, 1, 1)

\* re.split(r'(?<=[.!?])\s+', s)
SplitSentences(s) == ReSplit("sentence", s, 1, 1)

WordCount(s) == Len(Words(s))

FitsSentenceAlone(current_chunk, sentence, max) == WordCount(sentence) <= max

FitsStrictly(current_chunk, sentence, max) ==
    WordCount(JoinSp(Append(current_chunk, sentence))) < max

\* len(" ".join(current_chunk + [sentence]).split()) <= max_chunk_size
Fits(current_chunk, sentence, max) ==
    WordCount(JoinSp(Append(current_chunk, sentence))) <= max

\* `for sentence in sentences`, from current_chunk and the chunks so far
RECURSIVE SentenceLoop(_, _, _, _)
SentenceLoop(sentences, current_chunk, out, max) ==
    IF sentences = <<>> THEN [current_chunk |-> current_chunk, chunks |-> out]
    ELSE LET sentence == Head(sentences)
         IN IF Fits(current_chunk, sentence, max)
            THEN SentenceLoop(Tail(sentences), Append(current_chunk, sentence), out, max)
            ELSE SentenceLoop(Tail(sentences), <<sentence>>,
                              Append(out, Strip(JoinSp(current_chunk))), max)

FlushNever(current_chunk, out) == out

\* if current_chunk: chunks.append(" ".join(current_chunk).strip())
Flush(current_chunk, out) ==
    IF current_chunk # <<>> THEN Append(out, Strip(JoinSp(current_chunk))) ELSE out

\* `for para in paragraphs`
RECURSIVE ParagraphLoop(_, _, _)
ParagraphLoop(paragraphs, out, max) ==
    IF paragraphs = <<>> THEN out
    ELSE LET sentences == SplitSentences(Strip(Head(paragraphs)))
             r == SentenceLoop(sentences, <<>>, out, max)
         IN ParagraphLoop(Tail(paragraphs), Flush(r.current_chunk, r.chunks), max)

KeepAll(cs) == cs

\* [c for c in chunks if c]
NonEmpty(cs) == SelectSeq(cs, LAMBDA c : c # <<>>)

ChunkText(t, max) == NonEmpty(ParagraphLoop(SplitParagraphs(Strip(t)), <<>>, max))

InitChunkIdle ==
    /\ text = <<>> /\ max_chunk_size = 0 /\ chunks = <<>> /\ cpc = "idle"

InitChunk ==
    /\ text \in SeqsUpTo(Alphabet, MaxLen)
    /\ max_chunk_size \in -1..MaxChunkSize
    /\ chunks = <<>>
    /\ cpc = "call"

\* chunk_text_by_sentence_and_paragraph(text, max_chunk_size)
ChunkCall ==
    /\ cpc = "call"
    /\ chunks' = ChunkText(text, max_chunk_size)
    /\ cpc' = "done"
    /\ UNCHANGED <<text, max_chunk_size>>
    /\ UNCHANGED filterVars /\ UNCHANGED iocVars /\ UNCHANGED deobVars
    /\ UNCHANGED ingestVars /\ UNCHANGED searchVars

----------------------------------------------------------------------------
(* The IOC extraction engine: extract_iocs                                 *)
(* The matches of each pattern in the (deobfuscated) text are the input of *)
(* the normalisation: per indicator type, a list of matched strings.       *)

\* The keys of IOC_PATTERNS, in the order of the dict
IOC_KEYS ==
    <<"cves", "tids", "ipv4", "ipv6", "hashes", "emails", "urls", "domains", "paths", "ports">>

KeySet == Range(IOC_KEYS)

\* The printable ASCII characters in code point order, from 32 (space);
\* "grave" holds the place of code point 96
Ascii ==
    <<" ", "!", "\"", "#", "$", "%", "&", "'", "(", ")", "*", "+",
      ",", "-", ".", "/", "0", "1", "2", "3", "4", "5", "6", "7",
      "8", "9", ":", ";", "<", "=", ">", "?", "@", "A", "B", "C",
      "D", "E", "F", "G", "H", "I", "J", "K", "L", "M", "N", "O",
      "P", "Q", "R", "S", "T", "U", "V", "W", "X", "Y", "Z", "[",
      "\\", "]", "^", "_", "grave", "a", "b", "c", "d", "e", "f", "g",
      "h", "i", "j", "k", "l", "m", "n", "o", "p", "q", "r", "s",
      "t", "u", "v", "w", "x", "y", "z", "{", "|", "}", "~">>

\* ord(c)
Ord(c) == 31 + (CHOOSE i \in 1..Len(Ascii) : Ascii[i] = c)

\* str.lower(), one character
LowerChar(c) ==
    IF ~IsSpace(c) /\ Ord(c) \in 65..90 THEN Ascii[Ord(c) + 32 - 31] ELSE c

\* str.lower()
Lower(s) == [i \in 1..Len(s) |-> LowerChar(s[i])]

\* int(v): v is a string of decimal digits
RECURSIVE ToInt(_)
ToInt(v) ==
    IF v = <<>> THEN 0 ELSE 10 * ToInt(SubSeq(v, 1, Len(v) - 1)) + (Ord(v[Len(v)]) - 48)

\* str(n), n >= 0
RECURSIVE ToStr(_)
ToStr(n) ==
    IF n < 10 THEN <<Ascii[n + 48 - 31]>>
    ELSE ToStr(n \div 10) \o <<Ascii[(n % 10) + 48 - 31]>>

\* a < b for Python strings: by code point, a proper prefix first
RECURSIVE StrLess(_, _)
StrLess(a, b) ==
    IF a = <<>> THEN b # <<>>
    ELSE IF b = <<>> THEN FALSE
    ELSE IF Head(a) = Head(b) THEN StrLess(Tail(a), Tail(b))
    ELSE Ord(Head(a)) < Ord(Head(b))

\* Substrings of an advisory that the pattern of each key matches
Pool(k) ==
    CASE k = "cves"    -> <<<<"c", "v", "e", "-", "2", "0", "2", "1", "-", "1", "2", "3", "4">>,
                          <<"C", "V", "E", "-", "2", "0", "2", "3", "-", "1", "2", "3", "4", "5">>,
                          <<"C", "V", "E", "-", "2", "0", "2", "1", "-", "1", "2", "3", "4">>>>
       [] k = "tids"    -> <<<<"T", "1", "0", "5", "9", ".", "0", "0", "1">>,
                          <<"T", "1", "0", "5", "9">>,
                          <<"t", "1", "0", "5", "9">>>>
       [] k = "ipv4"    -> <<<<"1", "0", ".", "0", ".", "0", ".", "2">>,
                          <<"1", "0", ".", "0", ".", "0", ".", "1", "0">>,
                          <<"1", "0", ".", "0", ".", "0", ".", "1">>>>
       [] k = "ipv6"    -> <<<<"f", "e", "8", "0", ":", ":", "1">>,
                          <<"2", "0", "0", "1", ":", "D", "B", "8", ":", ":", "1">>,
                          <<"2", "0", "0", "1", ":", "d", "b", "8", ":", ":", "1">>>>
       [] k = "hashes"  -> <<Repeat("b", 32), Repeat("A", 40), Repeat("a", 32)>>
       [] k = "emails"  -> <<<<"b", "@", "x", ".", "i", "o">>,
                          <<"a", "@", "x", ".", "i", "o">>,
                          <<"A", "@", "x", ".", "i", "o">>>>
       [] k = "urls"    -> <<<<"h", "t", "t", "p", ":", "/", "/", "x", ".", "i", "o", "/", "b">>,
                          <<"h", "t", "t", "p", ":", "/", "/", "x", ".", "i", "o", "/", "a">>,
                          <<"h", "t", "t", "p", "s", ":", "/", "/", "x", ".", "i", "o">>>>
       [] k = "domains" -> <<<<"x", ".", "i", "o">>,
                          <<"b", ".", "i", "o">>,
                          <<"a", ".", "i", "o">>>>
       [] k = "paths"   -> <<<<"C", ":", "\\", "a", " ">>,
                          <<"/", "b">>,
                          <<"C", ":", "\\", "a">>>>
       [] k = "ports"   -> <<<<"9">>,
                          <<"0", "8", "0">>,
                          <<"7", "0", "0", "0", "0">>>>

PoolSize == Len(Pool("cves"))

\* Which of a pool's matches a text holds, in text order, repeats included
Shapes == SeqsUpTo(1..PoolSize, MaxVals)

MatchLists ==
    {[k \in KeySet |->
         LET shape == IF k \in {"ipv4", "ipv6"} THEN ipShape ELSE otherShape
         IN [i \in 1..Len(shape) |-> Pool(k)[shape[i]]]] :
       ipShape \in Shapes, otherShape \in Shapes}

NormalizedAnyPort(key, vs) ==
    IF key \in {"cves", "tids", "hashes", "emails", "urls", "domains", "paths"}
    THEN {Strip(v) : v \in Range(vs)}
    ELSE IF key \in {"ipv4", "ipv6"}
    THEN {Lower(Strip(v)) : v \in Range(vs)}
    ELSE {ToStr(ToInt(v)) : v \in Range(vs)}

\* The set comprehension of lines 186-191: what is kept of the matches of a key
Normalized(key, vs) ==
    IF key \in {"cves", "tids", "hashes", "emails", "urls", "domains", "paths"}
    THEN {Strip(v) : v \in Range(vs)}
    ELSE IF key \in {"ipv4", "ipv6"}
    THEN {Lower(Strip(v)) : v \in Range(vs)}
    ELSE {ToStr(ToInt(v)) : v \in {w \in Range(vs) : 0 < ToInt(w) /\ ToInt(w) <= 65535}}

\* sorted(list(a set)): whatever order the set iterates in, the sorted list
Sorted(S) == SortSeq(SeqOfSet(S), StrLess)

\* list(a set): one of the orders the set may iterate in
ListsOf(S) ==
    {l \in [1..Cardinality(S) -> S] : \A i, j \in 1..Cardinality(S) : l[i] = l[j] => i = j}

\* md[key] = value
Put(m, key, value) ==
    [k \in DOMAIN m \cup {key} |-> IF k = key THEN value ELSE m[k]]

InitIocIdle ==
    /\ vals = <<>> /\ md = EmptyMap /\ ki = 1 /\ ipc = "idle"
    /\ md_prev = EmptyMap /\ calls = 0

InitIoc ==
    /\ vals \in MatchLists
    /\ md = EmptyMap
    /\ ki = 1
    /\ ipc = "loop"
    /\ md_prev = EmptyMap
    /\ calls = 1

\* One iteration of `for key, rx in IOC_PATTERNS.items()`
IocLoopStep ==
    /\ ipc = "loop"
    /\ ki <= Len(IOC_KEYS)
    /\ LET key == IOC_KEYS[ki]
       IN md' = Put(md, key, Sorted(Normalized(key, vals[key])))
    /\ ki' = ki + 1
    /\ UNCHANGED <<vals, ipc, md_prev, calls>>
    /\ UNCHANGED filterVars /\ UNCHANGED chunkVars /\ UNCHANGED deobVars
    /\ UNCHANGED ingestVars /\ UNCHANGED searchVars

\* After the loop: md["ipv4"] = list(set(md["ipv4"])), the same for ipv6, return md
IocRelist ==
    /\ ipc = "loop"
    /\ ki > Len(IOC_KEYS)
    /\ \E l4 \in ListsOf(Range(md["ipv4"])), l6 \in ListsOf(Range(md["ipv6"])) :
          md' = [md EXCEPT !["ipv4"] = l4, !["ipv6"] = l6]
    /\ ipc' = "done"
    /\ UNCHANGED <<vals, ki, md_prev, calls>>
    /\ UNCHANGED filterVars /\ UNCHANGED chunkVars /\ UNCHANGED deobVars
    /\ UNCHANGED ingestVars /\ UNCHANGED searchVars

\* extract_iocs called once more on the same text (the same matches), as a
\* later ingestion run does: the first result is kept for comparison
IocCallAgain ==
    /\ ipc = "done"
    /\ calls = 1
    /\ md_prev' = md
    /\ calls' = calls + 1
    /\ md' = EmptyMap
    /\ ki' = 1
    /\ ipc' = "loop"
    /\ UNCHANGED vals
    /\ UNCHANGED filterVars /\ UNCHANGED chunkVars /\ UNCHANGED deobVars
    /\ UNCHANGED ingestVars /\ UNCHANGED searchVars

----------------------------------------------------------------------------
(* The deobfuscator: deobfuscate                                           *)

\* Whether string `pat` occurs in s at position i
OccursAt(s, i, pat) ==
    /\ i + Len(pat) - 1 <= Len(s)
    /\ \A k \in 1..Len(pat) : s[i + k - 1] = pat[k]

\* The same, letter case ignored (flags=re.I)
OccursAtIgnoreCase(s, i, pat) ==
    /\ i + Len(pat) - 1 <= Len(s)
    /\ \A k \in 1..Len(pat) : LowerChar(s[i + k - 1]) = LowerChar(pat[k])

Hxxp == <<"h", "x", "x", "p">>
ColonSlashSlash == <<":", "/", "/">>

\* The length of the match of hxxp(s?):// at i under re.I, 0 with no match
SchemeMatchLen(s, i) ==
    IF ~OccursAtIgnoreCase(s, i, Hxxp) THEN 0
    ELSE IF OccursAtIgnoreCase(s, i + 4, <<"s">>) /\ OccursAt(s, i + 5, ColonSlashSlash) THEN 8
    ELSE IF OccursAt(s, i + 4, ColonSlashSlash) THEN 7
    ELSE 0

SchemeReplacementLower(s, i, n) ==
    <<"h", "t", "t", "p">> \o (IF n = 8 THEN <<"s">> ELSE <<>>) \o ColonSlashSlash

\* r"http\1://" for the match of length n at i: group 1 is the s as matched
SchemeReplacement(s, i, n) ==
    <<"h", "t", "t", "p">> \o (IF n = 8 THEN <<s[i + 4]>> ELSE <<>>) \o ColonSlashSlash

\* re.sub(r"hxxp(s?)://", r"http\1://", s, flags=re.I), from position i
RECURSIVE SubScheme(_, _)
SubScheme(s, i) ==
    IF i > Len(s) THEN <<>>
    ELSE LET n == SchemeMatchLen(s, i)
         IN IF n = 0 THEN <<s[i]>> \o SubScheme(s, i + 1)
            ELSE SchemeReplacement(s, i, n) \o SubScheme(s, i + n)

\* s.replace(old, new), from position i: leftmost occurrences, not overlapping
RECURSIVE Replace(_, _, _, _)
Replace(s, old, new, i) ==
    IF i > Len(s) THEN <<>>
    ELSE IF OccursAt(s, i, old) THEN new \o Replace(s, old, new, i + Len(old))
    ELSE <<s[i]>> \o Replace(s, old, new, i + 1)

\* t.replace("[.]", ".").replace("(.)", ".").replace("{.}", ".")
ReplaceBrackets(t) ==
    Replace(Replace(Replace(t, <<"[", ".", "]">>, <<".">>, 1),
                    <<"(", ".", ")">>, <<".">>, 1),
            <<"{", ".", "}">>, <<".">>, 1)

Deobfuscate(t) == ReplaceBrackets(SubScheme(t, 1))

\* Inputs: obfuscated scheme prefixes and bracketed dots in pieces, and the
\* documented example
SchemePieces ==
    {Hxxp, <<"H", "X", "x", "P">>, <<"s">>, <<"S">>, ColonSlashSlash, <<":">>, <<"a">>}
BracketPieces ==
    {<<"[", ".", "]">>, <<"(", ".", ")">>, <<"(">>, <<")">>, <<"{">>, <<"}">>,
     <<"[">>, <<"]">>, <<".">>}
ObfuscatedExample ==
    <<"h", "x", "x", "p", "s", ":", "/", "/", "e", "v", "i", "l", "[", ".", "]", "e", "x", "a", "m", "p", "l", "e", "[", ".", "]", "c", "o", "m">>
DeobTexts ==
    Pieced(SchemePieces, MaxFrags) \cup Pieced(BracketPieces, MaxFrags)
      \cup {ObfuscatedExample}

InitDeobIdle == deob = <<>> /\ dpc = "idle"

InitDeob ==
    /\ text \in DeobTexts
    /\ max_chunk_size = 0 /\ chunks = <<>> /\ cpc = "idle"
    /\ deob = <<>>
    /\ dpc = "call"

\* deobfuscate(text)
DeobCall ==
    /\ dpc = "call"
    /\ deob' = Deobfuscate(text)
    /\ dpc' = "done"
    /\ UNCHANGED filterVars /\ UNCHANGED chunkVars /\ UNCHANGED iocVars
    /\ UNCHANGED ingestVars /\ UNCHANGED searchVars

----------------------------------------------------------------------------
(* extract_iocs from the text: deobfuscate, then the matches of each       *)
(* pattern of IOC_PATTERNS, then the normalisation above                   *)

IsDigit(c) == c \in {"0", "1", "2", "3", "4", "5", "6", "7", "8", "9"}

\* \w for the characters of the table
IsWordChar(c) ==
    /\ ~IsSpace(c)
    /\ \/ Ord(c) \in 48..57
       \/ Ord(c) \in 65..90
       \/ Ord(c) = 95
       \/ Ord(c) \in 97..122

IsHex(c) == ~IsSpace(c) /\ (Ord(c) \in 48..57 \/ Ord(c) \in 65..70 \/ Ord(c) \in 97..102)

IsLetter(c) == ~IsSpace(c) /\ (Ord(c) \in 65..90 \/ Ord(c) \in 97..122)

WordAt(s, i) == i \in 1..Len(s) /\ IsWordChar(s[i])

\* \b between positions i - 1 and i
Boundary(s, i) == WordAt(s, i - 1) # WordAt(s, i)

\* The number of consecutive digits from position i
RECURSIVE DigitRun(_, _)
DigitRun(s, i) ==
    IF i \in 1..Len(s) /\ IsDigit(s[i]) THEN 1 + DigitRun(s, i + 1) ELSE 0

\* Where the digits of \bport\s?(\d{1,5})\b would start for a match at i
PortDigitsAt(s, i) == IF i + 4 <= Len(s) /\ IsSpace(s[i + 4]) THEN i + 5 ELSE i + 4

\* The length of the match of \bport\s?(\d{1,5})\b at i under re.I, 0 with
\* no match: the digits are a whole run, since \b cannot fall inside one
PortMatchLen(s, i) ==
    IF ~(Boundary(s, i) /\ OccursAtIgnoreCase(s, i, <<"p", "o", "r", "t">>)) THEN 0
    ELSE LET d == PortDigitsAt(s, i)
             n == DigitRun(s, d)
         IN IF n \in 1..5 /\ ~WordAt(s, d + n) THEN (d + n) - i ELSE 0

CveMatchLenAnyDigits(s, i) ==
    IF ~(Boundary(s, i) /\ OccursAtIgnoreCase(s, i, <<"c", "v", "e", "-">>)) THEN 0
    ELSE IF ~(DigitRun(s, i + 4) = 4 /\ OccursAt(s, i + 8, <<"-">>)) THEN 0
    ELSE LET n == DigitRun(s, i + 9)
         IN IF n \in 1..7 /\ ~WordAt(s, i + 9 + n) THEN 9 + n ELSE 0

\* The same for \bCVE-\d{4}-\d{4,7}\b under re.I
CveMatchLen(s, i) ==
    IF ~(Boundary(s, i) /\ OccursAtIgnoreCase(s, i, <<"c", "v", "e", "-">>)) THEN 0
    ELSE IF ~(DigitRun(s, i + 4) = 4 /\ OccursAt(s, i + 8, <<"-">>)) THEN 0
    ELSE LET n == DigitRun(s, i + 9)
         IN IF n \in 4..7 /\ ~WordAt(s, i + 9 + n) THEN 9 + n ELSE 0

\* The same for \bT\d{4}(?:\.\d{1,3})?\b under re.I
TidMatchLen(s, i) ==
    IF ~(Boundary(s, i) /\ OccursAtIgnoreCase(s, i, <<"t">>)) THEN 0
    ELSE IF DigitRun(s, i + 1) < 4 THEN 0
    ELSE LET n == IF OccursAt(s, i + 5, <<".">>) THEN DigitRun(s, i + 6) ELSE 0
         IN IF n \in 1..3 /\ ~WordAt(s, i + 6 + n) THEN 6 + n
            ELSE IF ~WordAt(s, i + 5) THEN 5
            ELSE 0

\* Texts in which the pattern of a key has no match, by a character the
\* pattern needs: a dot, one to three digits and a dot (ipv4), a colon (ipv6), 32 hex digits in a row
\* (hashes), an @ (emails), a slash (urls, paths), a dot before a letter
\* (domains), a backslash (paths)
CannotMatch(key, s) ==
    CASE key = "ipv4"    -> \A i \in 1..Len(s) :
                               s[i] = "." /\ DigitRun(s, i + 1) \in 1..3
                                 => ~OccursAt(s, i + 1 + DigitRun(s, i + 1), <<".">>)
      [] key = "ipv6"    -> ":" \notin Range(s)
      [] key = "hashes"  -> \A i \in 1..(Len(s) - 31) : \E k \in 0..31 : ~IsHex(s[i + k])
      [] key = "emails"  -> "@" \notin Range(s)
      [] key = "urls"    -> "/" \notin Range(s)
      [] key = "domains" -> \A i \in 1..(Len(s) - 1) : s[i] = "." => ~IsLetter(s[i + 1])
      [] key = "paths"   -> "/" \notin Range(s) /\ "\\" \notin Range(s)

\* The length of the match of IOC_PATTERNS[key] at i, 0 with no match;
\* defined for seven of the keys only on texts they cannot match
MatchLen(key, s, i) ==
    CASE key = "ports" -> PortMatchLen(s, i)
      [] key = "cves"  -> CveMatchLen(s, i)
      [] key = "tids"  -> TidMatchLen(s, i)
      [] key \notin {"ports", "cves", "tids"} /\ CannotMatch(key, s) -> 0

\* m.group(1) for ports, the whole match (findall) for the other keys
MatchValue(key, s, i, n) ==
    IF key = "ports" THEN SubSeq(s, PortDigitsAt(s, i), i + n - 1)
    ELSE SubSeq(s, i, i + n - 1)

\* rx.finditer(text) / rx.findall(text) from position i: leftmost matches,
\* not overlapping
RECURSIVE FindAll(_, _, _)
FindAll(key, s, i) ==
    IF i > Len(s) THEN <<>>
    ELSE LET n == MatchLen(key, s, i)
         IN IF n = 0 THEN FindAll(key, s, i + 1)
            ELSE <<MatchValue(key, s, i, n)>> \o FindAll(key, s, i + n)

\* Inputs: port mentions and identifiers in pieces, and documented examples
PortPieces ==
    {<<"p", "o", "r", "t">>,
     <<"P", "O", "R", "T">>,
     <<"p", "o", "r", "t", " ">>,
     <<" ">>,
     <<"0">>,
     <<"8", "0">>,
     <<"6", "5", "5", "3", "5">>,
     <<"6", "5", "5", "3", "6">>,
     <<"x">>}
IdPieces ==
    {<<"C", "V", "E", "-", "2", "0", "2", "3", "-">>,
     <<"c", "v", "e", "-", "2", "0", "2", "1", "-">>,
     <<"1">>,
     <<"1", "2", "3", "4">>,
     <<"1", "2", "3", "4", "5", "6", "7", "8">>,
     <<" ">>,
     <<"T", "1", "0", "5", "9">>,
     <<"t", "1", "0", "5", "9", ".", "0", "0", "1">>}
Port70000 == <<"p", "o", "r", "t", " ", "7", "0", "0", "0", "0">>
Port8080 == <<"p", "o", "r", "t", " ", "8", "0", "8", "0">>
PortsRepeated == <<"p", "o", "r", "t", " ", "8", "0", " ", "p", "o", "r", "t", "0", "8", "0", ",", "p", "o", "r", "t", "\n", "0">>
CveExample ==
    <<"E", "x", "p", "l", "o", "i", "t", "i", "n", "g", " ", "C", "V", "E", "-", "2", "0", "2", "3", "-", "1", "2", "3", "4", "5", " ", "a", "n", "d", " ", "c", "v", "e", "-", "2", "0", "2", "1", "-", "1">>
CveExampleFourDigits ==
    <<"E", "x", "p", "l", "o", "i", "t", "i", "n", "g", " ", "C", "V", "E", "-", "2", "0", "2", "3", "-", "1", "2", "3", "4", "5", " ", "a", "n", "d", " ", "c", "v", "e", "-", "2", "0", "2", "1", "-", "1", "2", "3", "4">>
IocTexts ==
    Pieced(PortPieces, MaxFrags) \cup Pieced(IdPieces, MaxFrags)
      \cup {Port70000, Port8080, PortsRepeated, CveExample, CveExampleFourDigits}

InitIocText ==
    /\ text \in IocTexts
    /\ max_chunk_size = 0 /\ chunks = <<>> /\ cpc = "idle"
    /\ vals = <<>>
    /\ md = EmptyMap
    /\ ki = 1
    /\ ipc = "scan"
    /\ md_prev = EmptyMap
    /\ calls = 1

\* text = deobfuscate(raw_text), and the matches of every pattern in it
\* (the loop takes them key by key from the same text)
IocScan ==
    /\ ipc = "scan"
    /\ vals' = [k \in KeySet |-> FindAll(k, Deobfuscate(text), 1)]
    /\ ipc' = "loop"
    /\ UNCHANGED <<md, ki, md_prev, calls>>
    /\ UNCHANGED filterVars /\ UNCHANGED chunkVars /\ UNCHANGED deobVars
    /\ UNCHANGED ingestVars /\ UNCHANGED searchVars

----------------------------------------------------------------------------
(* The main ingestion loop, run after run on one directory and one store   *)

StartsWith(f, prefix) == OccursAt(f, 1, prefix)

EndsWith(f, suffix) ==
    Len(f) >= Len(suffix) /\ SubSeq(f, Len(f) - Len(suffix) + 1, Len(f)) = suffix

\* os.path.splitext(f): the extension starts at the last dot that is not
\* among the leading dots
SplitExt(f) ==
    LET dots == {i \in 1..Len(f) : f[i] = "." /\ \E j \in 1..(i - 1) : f[j] # "."}
    IN IF dots = {} THEN <<f, <<>>>>
       ELSE <<SubSeq(f, 1, Max(dots) - 1), SubSeq(f, Max(dots), Len(f))>>

ProcessedSuffix == <<"_", "p", "r", "o", "c", "e", "s", "s", "e", "d">>

\* filename.startswith('.') or name_part.endswith('_processed')
Skipped(filename) ==
    StartsWith(filename, <<".">>) \/ EndsWith(SplitExt(filename)[1], ProcessedSuffix)

\* f"{name_part}_processed{extension_part}"
NewFilename(filename) ==
    SplitExt(filename)[1] \o ProcessedSuffix \o SplitExt(filename)[2]

\* hashlib.sha256(text.encode('utf-8')).hexdigest(): one value per text
Sha256(t) == <<"sha256", t>>

\* The embedding of a chunk
Embedding(chunk) == <<"embedding", chunk>>

\* max_chunk_size of the ingestion loop
IngestChunkSize == 512

\* extract_iocs(t) as a whole: the results it may return
ExtractIocs(t) ==
    LET sorted == [k \in KeySet |-> Sorted(Normalized(k, FindAll(k, Deobfuscate(t), 1)))]
    IN {[sorted EXCEPT !["ipv4"] = l4, !["ipv6"] = l6] :
          l4 \in ListsOf(Range(sorted["ipv4"])), l6 \in ListsOf(Range(sorted["ipv6"]))}

PropertiesChunkIocs(chunk, name, id, iocs) ==
    LET own == CHOOSE r \in ExtractIocs(chunk) : TRUE
    IN [k \in {"text", "doc_name", "doc_id", "iocs"} \cup KeySet |->
          CASE k = "text"     -> chunk
            [] k = "doc_name" -> name
            [] k = "doc_id"   -> id
            [] k = "iocs"     -> Flatten([i \in 1..Len(IOC_KEYS) |-> own[IOC_KEYS[i]]])
            [] OTHER          -> own[k]]

\* The properties of the object inserted for a chunk; "iocs" is iocslst,
\* sum(extracted_iocs.values(), [])
Properties(chunk, name, id, iocs) ==
    [k \in {"text", "doc_name", "doc_id", "iocs"} \cup KeySet |->
        CASE k = "text"     -> chunk
          [] k = "doc_name" -> name
          [] k = "doc_id"   -> id
          [] k = "iocs"     -> Flatten([i \in 1..Len(IOC_KEYS) |-> iocs[IOC_KEYS[i]]])
          [] OTHER          -> iocs[k]]

Event(op, file, chunk) == [op |-> op, file |-> file, chunk |-> chunk]

\* The directory: two advisories, or one and a hidden file
FileA == <<"a", ".", "p", "d", "f">>
FileB == <<"b", ".", "p", "d", "f">>
HiddenFile == <<".", "k", "e", "e", "p">>
DocTexts ==
    {<<"p", "o", "r", "t", " ", "1", ".", "\n", "\n", "p", "o", "r", "t", " ", "2">>,
     <<"a", "\n", "\n", "a">>}

InitIngestIdle ==
    /\ dir = {} /\ content = <<>> /\ store = <<>> /\ filenames = <<>> /\ fidx = 1
    /\ extracted_text = <<>> /\ pdf_name = <<>> /\ doc_id = <<>>
    /\ extracted_iocs = EmptyMap /\ doc_chunks = <<>> /\ ci = 1 /\ vector = <<>>
    /\ filecount = 0 /\ gpc = "idle" /\ runs = 0 /\ log = <<>>

InitIngest ==
    /\ dir \in {{FileA, FileB}, {FileA, HiddenFile}}
    /\ content \in [{FileA, FileB} -> DocTexts]
    /\ store = <<>>
    /\ filenames = <<>>
    /\ fidx = 1
    /\ extracted_text = <<>> /\ pdf_name = <<>> /\ doc_id = <<>>
    /\ extracted_iocs = EmptyMap /\ doc_chunks = <<>> /\ ci = 1 /\ vector = <<>>
    /\ filecount = 0
    /\ gpc = "start"
    /\ runs = 0
    /\ log = <<>>

ingestLocals == <<extracted_text, pdf_name, doc_id, extracted_iocs, doc_chunks, ci, vector>>

\* The script is started: filenames = os.listdir(directory_path), in any
\* order; filecount = 0
StartRun ==
    /\ gpc \in {"start", "finished", "aborted"}
    /\ runs < MaxRuns
    /\ runs' = runs + 1
    /\ filenames' \in ListsOf(dir)
    /\ fidx' = 1
    /\ filecount' = 0
    /\ extracted_text' = <<>> /\ pdf_name' = <<>> /\ doc_id' = <<>>
    /\ extracted_iocs' = EmptyMap /\ doc_chunks' = <<>> /\ ci' = 1 /\ vector' = <<>>
    /\ log' = <<>>
    /\ gpc' = "next"
    /\ UNCHANGED <<dir, content, store>>
    /\ UNCHANGED filterVars /\ UNCHANGED chunkVars /\ UNCHANGED iocVars
    /\ UNCHANGED deobVars /\ UNCHANGED searchVars

\* A hidden or already processed item: continue
LoopSkip ==
    /\ gpc = "next"
    /\ fidx <= Len(filenames)
    /\ Skipped(filenames[fidx])
    /\ fidx' = fidx + 1
    /\ UNCHANGED <<dir, content, store, filenames, filecount, gpc, runs, log>>
    /\ UNCHANGED ingestLocals
    /\ UNCHANGED filterVars /\ UNCHANGED chunkVars /\ UNCHANGED iocVars
    /\ UNCHANGED deobVars /\ UNCHANGED searchVars

\* Steps 1 to 4 for the next file: text, doc_id, indicators, chunks
Extract ==
    /\ gpc = "next"
    /\ fidx <= Len(filenames)
    /\ ~Skipped(filenames[fidx])
    /\ LET t == content[filenames[fidx]]
       IN /\ extracted_text' = t
          /\ pdf_name' = filenames[fidx]
          /\ doc_id' = Sha256(t)
          /\ extracted_iocs' \in ExtractIocs(t)
          /\ doc_chunks' = ChunkText(t, IngestChunkSize)
    /\ ci' = 1
    /\ gpc' = "chunk"
    /\ log' = Append(log, Event("extract", filenames[fidx], 0))
    /\ UNCHANGED <<dir, content, store, filenames, fidx, vector, filecount, runs>>
    /\ UNCHANGED filterVars /\ UNCHANGED chunkVars /\ UNCHANGED iocVars
    /\ UNCHANGED deobVars /\ UNCHANGED searchVars

\* extract_text_from_pdf raises: nothing catches it, the script ends
ExtractRaises ==
    /\ gpc = "next"
    /\ fidx <= Len(filenames)
    /\ ~Skipped(filenames[fidx])
    /\ gpc' = "aborted"
    /\ log' = Append(log, Event("raise", filenames[fidx], 0))
    /\ UNCHANGED <<dir, content, store, filenames, fidx, filecount, runs>>
    /\ UNCHANGED ingestLocals
    /\ UNCHANGED filterVars /\ UNCHANGED chunkVars /\ UNCHANGED iocVars
    /\ UNCHANGED deobVars /\ UNCHANGED searchVars

\* vector = get_ollama_embedding(chunk, ollama_client)
Embed ==
    /\ gpc = "chunk"
    /\ ci <= Len(doc_chunks)
    /\ vector' = Embedding(doc_chunks[ci])
    /\ gpc' = "insert"
    /\ UNCHANGED <<dir, content, store, filenames, fidx, extracted_text, pdf_name, doc_id,
                   extracted_iocs, doc_chunks, ci, filecount, runs, log>>
    /\ UNCHANGED filterVars /\ UNCHANGED chunkVars /\ UNCHANGED iocVars
    /\ UNCHANGED deobVars /\ UNCHANGED searchVars

EmbedRaisesNextChunk ==
    /\ gpc = "chunk"
    /\ ci <= Len(doc_chunks)
    /\ ci' = ci + 1
    /\ gpc' = "chunk"
    /\ log' = Append(log, Event("raise", filenames[fidx], ci))
    /\ UNCHANGED <<dir, content, store, filenames, fidx, extracted_text, pdf_name, doc_id,
                   extracted_iocs, doc_chunks, vector, filecount, runs>>
    /\ UNCHANGED filterVars /\ UNCHANGED chunkVars /\ UNCHANGED iocVars
    /\ UNCHANGED deobVars /\ UNCHANGED searchVars

\* The embedding call raises: nothing catches it, the script ends
EmbedRaises ==
    /\ gpc = "chunk"
    /\ ci <= Len(doc_chunks)
    /\ gpc' = "aborted"
    /\ log' = Append(log, Event("raise", filenames[fidx], ci))
    /\ UNCHANGED <<dir, content, store, filenames, fidx, filecount, runs>>
    /\ UNCHANGED ingestLocals
    /\ UNCHANGED filterVars /\ UNCHANGED chunkVars /\ UNCHANGED iocVars
    /\ UNCHANGED deobVars /\ UNCHANGED searchVars

\* documents.data.insert(properties=..., vector=vector)
Insert ==
    /\ gpc = "insert"
    /\ store' = Append(store,
          [properties |-> Properties(doc_chunks[ci], pdf_name, doc_id, extracted_iocs),
           vector |-> vector])
    /\ ci' = ci + 1
    /\ gpc' = "chunk"
    /\ log' = Append(log, Event("insert", filenames[fidx], ci))
    /\ UNCHANGED <<dir, content, filenames, fidx, extracted_text, pdf_name, doc_id,
                   extracted_iocs, doc_chunks, vector, filecount, runs>>
    /\ UNCHANGED filterVars /\ UNCHANGED chunkVars /\ UNCHANGED iocVars
    /\ UNCHANGED deobVars /\ UNCHANGED searchVars

\* The insert raises: nothing catches it, the script ends
InsertRaises ==
    /\ gpc = "insert"
    /\ gpc' = "aborted"
    /\ log' = Append(log, Event("raise", filenames[fidx], ci))
    /\ UNCHANGED <<dir, content, store, filenames, fidx, filecount, runs>>
    /\ UNCHANGED ingestLocals
    /\ UNCHANGED filterVars /\ UNCHANGED chunkVars /\ UNCHANGED iocVars
    /\ UNCHANGED deobVars /\ UNCHANGED searchVars

\* The chunk loop is over: filecount += 1
ChunksDone ==
    /\ gpc = "chunk"
    /\ ci > Len(doc_chunks)
    /\ filecount' = filecount + 1
    /\ gpc' = "rename"
    /\ UNCHANGED <<dir, content, store, filenames, fidx, runs, log>>
    /\ UNCHANGED ingestLocals
    /\ UNCHANGED filterVars /\ UNCHANGED chunkVars /\ UNCHANGED iocVars
    /\ UNCHANGED deobVars /\ UNCHANGED searchVars

\* os.rename(full_path, new_full_path)
Rename ==
    /\ gpc = "rename"
    /\ dir' = (dir \ {filenames[fidx]}) \cup {NewFilename(filenames[fidx])}
    /\ fidx' = fidx + 1
    /\ gpc' = "next"
    /\ log' = Append(log, Event("rename", filenames[fidx], 0))
    /\ UNCHANGED <<content, store, filenames, filecount, runs>>
    /\ UNCHANGED ingestLocals
    /\ UNCHANGED filterVars /\ UNCHANGED chunkVars /\ UNCHANGED iocVars
    /\ UNCHANGED deobVars /\ UNCHANGED searchVars

\* os.rename raises: the except clause prints the error, the loop goes on
RenameFails ==
    /\ gpc = "rename"
    /\ fidx' = fidx + 1
    /\ gpc' = "next"
    /\ log' = Append(log, Event("rename_failed", filenames[fidx], 0))
    /\ UNCHANGED <<dir, content, store, filenames, filecount, runs>>
    /\ UNCHANGED ingestLocals
    /\ UNCHANGED filterVars /\ UNCHANGED chunkVars /\ UNCHANGED iocVars
    /\ UNCHANGED deobVars /\ UNCHANGED searchVars

\* After the last file: client.close(), the script ends
LoopEnd ==
    /\ gpc = "next"
    /\ fidx > Len(filenames)
    /\ gpc' = "finished"
    /\ UNCHANGED <<dir, content, store, filenames, fidx, filecount, runs, log>>
    /\ UNCHANGED ingestLocals
    /\ UNCHANGED filterVars /\ UNCHANGED chunkVars /\ UNCHANGED iocVars
    /\ UNCHANGED deobVars /\ UNCHANGED searchVars

----------------------------------------------------------------------------
(* search: the client, the query, the filter                               *)

InitSearchIdle == client = "none" /\ spc = "idle" /\ search_result = EmptyMap

InitSearch == client = "none" /\ spc = "start" /\ search_result = EmptyMap

\* A call that raises inside search reaches its except clause: fail_stage,
\* the error is logged and raised again

\* client = get_client()
GetClient ==
    /\ spc = "start"
    /\ client' = "open"
    /\ spc' = "get_collection"
    /\ UNCHANGED search_result
    /\ UNCHANGED filterVars /\ UNCHANGED chunkVars /\ UNCHANGED iocVars
    /\ UNCHANGED deobVars /\ UNCHANGED ingestVars

\* get_client() raises: no client was opened
GetClientRaises ==
    /\ spc = "start"
    /\ spc' = "raised"
    /\ UNCHANGED <<client, search_result>>
    /\ UNCHANGED filterVars /\ UNCHANGED chunkVars /\ UNCHANGED iocVars
    /\ UNCHANGED deobVars /\ UNCHANGED ingestVars

\* collection = client.collections.get(WEAVIATE_COLLECTION)
GetCollection ==
    /\ spc = "get_collection"
    /\ spc' = "embed"
    /\ UNCHANGED <<client, search_result>>
    /\ UNCHANGED filterVars /\ UNCHANGED chunkVars /\ UNCHANGED iocVars
    /\ UNCHANGED deobVars /\ UNCHANGED ingestVars

\* client.collections.get raises
GetCollectionRaises ==
    /\ spc = "get_collection"
    /\ spc' = "raised"
    /\ UNCHANGED <<client, search_result>>
    /\ UNCHANGED filterVars /\ UNCHANGED chunkVars /\ UNCHANGED iocVars
    /\ UNCHANGED deobVars /\ UNCHANGED ingestVars

\* query_vector = embed_text(query)
EmbedQuery ==
    /\ spc = "embed"
    /\ spc' = "query"
    /\ UNCHANGED <<client, search_result>>
    /\ UNCHANGED filterVars /\ UNCHANGED chunkVars /\ UNCHANGED iocVars
    /\ UNCHANGED deobVars /\ UNCHANGED ingestVars

\* embed_text raises
EmbedQueryRaises ==
    /\ spc = "embed"
    /\ spc' = "raised"
    /\ UNCHANGED <<client, search_result>>
    /\ UNCHANGED filterVars /\ UNCHANGED chunkVars /\ UNCHANGED iocVars
    /\ UNCHANGED deobVars /\ UNCHANGED ingestVars

\* res = collection.query.near_vector(...): the hits the store returns
NearVector ==
    /\ spc = "query"
    /\ hits' \in HitLists
    /\ spc' = "close"
    /\ UNCHANGED <<client, search_result>>
    /\ UNCHANGED <<fi, resultdict, hitsdict, final_res, fpc>>
    /\ UNCHANGED chunkVars /\ UNCHANGED iocVars
    /\ UNCHANGED deobVars /\ UNCHANGED ingestVars

\* near_vector raises
NearVectorRaises ==
    /\ spc = "query"
    /\ spc' = "raised"
    /\ UNCHANGED <<client, search_result>>
    /\ UNCHANGED filterVars /\ UNCHANGED chunkVars /\ UNCHANGED iocVars
    /\ UNCHANGED deobVars /\ UNCHANGED ingestVars

\* client.close(), then the call of _filterresults(res)
CloseClient ==
    /\ spc = "close"
    /\ client' = "closed"
    /\ spc' = "filter"
    /\ fpc' = "loop"
    /\ UNCHANGED search_result
    /\ UNCHANGED <<hits, fi, resultdict, hitsdict, final_res>>
    /\ UNCHANGED chunkVars /\ UNCHANGED iocVars
    /\ UNCHANGED deobVars /\ UNCHANGED ingestVars

\* return filtered if filtered else {}
SearchReturn ==
    /\ spc = "filter"
    /\ fpc = "done"
    /\ search_result' = IF final_res # EmptyMap THEN final_res ELSE EmptyMap
    /\ spc' = "returned"
    /\ UNCHANGED client
    /\ UNCHANGED filterVars /\ UNCHANGED chunkVars /\ UNCHANGED iocVars
    /\ UNCHANGED deobVars /\ UNCHANGED ingestVars

\* _filterresults raised: the except clause of search raises again
FilterRaised ==
    /\ spc = "filter"
    /\ fpc = "raised"
    /\ spc' = "raised"
    /\ UNCHANGED <<client, search_result>>
    /\ UNCHANGED filterVars /\ UNCHANGED chunkVars /\ UNCHANGED iocVars
    /\ UNCHANGED deobVars /\ UNCHANGED ingestVars

----------------------------------------------------------------------------
(* Specifications *)

Init == InitFilter /\ InitChunkIdle /\ InitIocIdle /\ InitDeobIdle
    /\ InitIngestIdle /\ InitSearchIdle

Next == FilterLoopStep \/ FilterFinish

Spec == Init /\ [][Next]_vars

InitC == InitFilterIdle /\ InitChunk /\ InitIocIdle /\ InitDeobIdle
    /\ InitIngestIdle /\ InitSearchIdle

NextChunk == ChunkCall

SpecChunk == InitC /\ [][NextChunk]_vars

InitI == InitFilterIdle /\ InitChunkIdle /\ InitIoc /\ InitDeobIdle
    /\ InitIngestIdle /\ InitSearchIdle

NextIoc == IocLoopStep \/ IocRelist

SpecIoc == InitI /\ [][NextIoc]_vars

NextIocTwice == IocLoopStep \/ IocRelist \/ IocCallAgain

SpecIocTwice == InitI /\ [][NextIocTwice]_vars

InitT == InitFilterIdle /\ InitIocText /\ InitDeobIdle
    /\ InitIngestIdle /\ InitSearchIdle

NextIocText == IocScan \/ IocLoopStep \/ IocRelist

SpecIocText == InitT /\ [][NextIocText]_vars

InitD == InitFilterIdle /\ InitIocIdle /\ InitDeob
    /\ InitIngestIdle /\ InitSearchIdle

NextDeob == DeobCall

SpecDeob == InitD /\ [][NextDeob]_vars

InitG == InitFilterIdle /\ InitChunkIdle /\ InitIocIdle /\ InitDeobIdle
    /\ InitIngest /\ InitSearchIdle

NextIngest ==
    \/ StartRun
    \/ LoopSkip
    \/ Extract
    \/ ExtractRaises
    \/ Embed
    \/ EmbedRaises
    \/ Insert
    \/ InsertRaises
    \/ ChunksDone
    \/ Rename
    \/ RenameFails
    \/ LoopEnd

SpecIngest == InitG /\ [][NextIngest]_vars

InitS == InitFilterIdle /\ InitChunkIdle /\ InitIocIdle /\ InitDeobIdle
    /\ InitIngestIdle /\ InitSearch

NextSearch ==
    \/ GetClient
    \/ GetClientRaises
    \/ GetCollection
    \/ GetCollectionRaises
    \/ EmbedQuery
    \/ EmbedQueryRaises
    \/ NearVector
    \/ NearVectorRaises
    \/ CloseClient
    \/ FilterLoopStep
    \/ FilterFinish
    \/ SearchReturn
    \/ FilterRaised

SpecSearch == InitS /\ [][NextSearch]_vars

----------------------------------------------------------------------------
(* Properties of the relevance filter, stated over the hit list itself     *)

Returned == fpc = "done"
Ended == fpc \in {"done", "raised"}
AllWellFormed == \A i \in 1..Len(hits) : WellFormed(hits[i])

\* The documents named by the hits, and each one's number of hits
HitDocs == {hits[i].doc_name : i \in {k \in 1..Len(hits) : HasKey(hits[k], "doc_name")}}
HitCount(d) ==
    Cardinality({i \in 1..Len(hits) : HasKey(hits[i], "doc_name") /\ hits[i].doc_name = d})
HitCounts == LET ds == SeqOfSet(HitDocs) IN [i \in 1..Len(ds) |-> HitCount(ds[i])]
MaxHitCount == Max({HitCount(d) : d \in HitDocs})

\* C1: called with zero hits, the filter returns an empty EvidenceMap and
\* does not raise.
C1_EmptyHitsGiveEmptyMap ==
    (hits = <<>> /\ Ended) => (Returned /\ final_res = EmptyMap)

\* C2 as stated: for a non-empty hit list, a document is a key of the
\* EvidenceMap iff its hit count is >= the interpolated 90th percentile of
\* the hit counts of the distinct documents.
C2_KeptIffAtLeastPercentile ==
    (Returned /\ hits # <<>>) =>
        DOMAIN final_res = {d \in HitDocs : 10 * HitCount(d) >= Quantile90x10(HitCounts)}

\* What the code keeps instead: for a non-empty hit list of well-formed
\* hits the filter returns, and a document is a key of the EvidenceMap iff
\* its hit count is >= the interpolated 90th percentile truncated to an
\* integer.
C2_KeptIffAtLeastTruncatedPercentile ==
    (Ended /\ hits # <<>> /\ AllWellFormed) =>
        /\ Returned
        /\ DOMAIN final_res =
              {d \in HitDocs : HitCount(d) >= Quantile90x10(HitCounts) \div 10}

\* A returned map that keeps a document whose count is below the exact
\* percentile and drops another
C2_TruncationKeepsMore ==
    /\ Returned
    /\ \E d \in DOMAIN final_res : 10 * HitCount(d) < Quantile90x10(HitCounts)
    /\ \E d \in HitDocs : d \notin DOMAIN final_res

\* Positions of the hits of document d, and those of them that are the first
\* occurrence of their (doc_name, text) pair
HitsOf(d) == {i \in 1..Len(hits) : hits[i].doc_name = d}
FirstOccurrencesOf(d) == {i \in HitsOf(d) : \A j \in 1..(i - 1) : hits[j] # hits[i]}

\* C3 as stated: the map holds one text per retained document, the text of
\* that document's last hit in the order of the hit list, also when a
\* (doc_name, text) hit repeats.
C3_LastHitWins ==
    Returned => \A d \in DOMAIN final_res : final_res[d] = hits[Max(HitsOf(d))].text

\* C3 amended: the map holds one text per retained document: of that
\* document's distinct texts, the one whose first occurrence in the hit list
\* comes last (a repeated (doc_name, text) hit counts at its first position).
C3_LastFirstOccurrenceWins ==
    Returned =>
        /\ DOMAIN final_res \subseteq HitDocs
        /\ \A d \in DOMAIN final_res :
              final_res[d] = hits[Max(FirstOccurrencesOf(d))].text

\* A retained document whose last hit repeats an earlier text after a distinct one
C3_Witness ==
    /\ Returned
    /\ \E d \in DOMAIN final_res :
          /\ Max(FirstOccurrencesOf(d)) < Max(HitsOf(d))
          /\ final_res[d] # hits[Max(HitsOf(d))].text

\* C4: the filter is monotone in hit count: with a document retained, every
\* document with at least as many hits is retained; counts {A:10, B:10, C:1}
\* keep A and B and exclude C.
C4_MonotoneInHitCount ==
    Returned =>
        /\ \A d \in DOMAIN final_res : \A e \in HitDocs :
              HitCount(e) >= HitCount(d) => e \in DOMAIN final_res
        /\ hits = CountedHits(10, 10, 1) => DOMAIN final_res = {"A", "B"}

C4_Witness ==
    /\ Returned
    /\ hits = CountedHits(10, 10, 1)
    /\ DOMAIN final_res = {"A", "B"}

\* C5: for a non-empty hit list every document with the maximum hit count is
\* retained, so the map is not empty; with all counts equal every document is
\* retained, and a single document is retained.
C5_TopCountRetained ==
    (Ended /\ hits # <<>> /\ AllWellFormed) =>
        /\ Returned
        /\ \A d \in HitDocs : HitCount(d) = MaxHitCount => d \in DOMAIN final_res
        /\ final_res # EmptyMap
        /\ (\A d \in HitDocs : HitCount(d) = MaxHitCount) => DOMAIN final_res = HitDocs

C5_Witness ==
    /\ Returned
    /\ hits = CountedHits(5, 5, 5)
    /\ DOMAIN final_res = {"A", "B", "C"}

\* C6: with a hit lacking doc_name or text anywhere in the list, the call
\* ends in an error and returns no EvidenceMap, not even a partial one.
C6_MalformedHitIsFatal ==
    (Ended /\ ~AllWellFormed) => (fpc = "raised" /\ final_res = EmptyMap)

\* The call raised at a malformed hit that follows well-formed ones
C6_Witness ==
    /\ fpc = "raised"
    /\ fi > 1
    /\ fi <= Len(hits)
    /\ ~WellFormed(hits[fi])
    /\ resultdict # <<>>

----------------------------------------------------------------------------
(* Properties of the chunker, stated over the input text                   *)

Chunked == cpc = "done"

\* The sentences of the text in order: each paragraph's sentences
TextSentences ==
    LET paragraphs == SplitParagraphs(Strip(text))
    IN SelectSeq(
         Flatten([i \in 1..Len(paragraphs) |-> SplitSentences(Strip(paragraphs[i]))]),
         LAMBDA s : s # <<>>)

\* C7: every chunk has at most max_chunk_size words or is exactly one
\* sentence; a sentence over the bound is a chunk of its own.
C7_ChunkWithinBoundOrOneSentence ==
    Chunked =>
        /\ \A i \in 1..Len(chunks) :
              \/ WordCount(chunks[i]) <= max_chunk_size
              \/ chunks[i] \in Range(TextSentences)
        /\ \A k \in 1..Len(TextSentences) :
              WordCount(TextSentences[k]) > max_chunk_size
                  => TextSentences[k] \in Range(chunks)

\* An oversized sentence is one chunk of several
C7_Witness ==
    /\ Chunked
    /\ max_chunk_size >= 1
    /\ Len(chunks) >= 2
    /\ \E i \in 1..Len(chunks) : WordCount(chunks[i]) > max_chunk_size

\* C8: the chunks joined with single spaces are the sentences of the text
\* in order, joined with single spaces: none lost, duplicated or reordered,
\* and the words of the text are unchanged.
C8_ChunksKeepSentences ==
    Chunked =>
        /\ JoinSp(chunks) = JoinSp(TextSentences)
        /\ Flatten([i \in 1..Len(chunks) |-> SplitSentences(chunks[i])]) = TextSentences
        /\ Words(JoinSp(chunks)) = Words(text)

\* Two paragraphs and a split inside a paragraph
C8_Witness ==
    /\ Chunked
    /\ Len(SplitParagraphs(Strip(text))) >= 2
    /\ Len(chunks) >= 2
    /\ Len(chunks) < Len(TextSentences)

\* C9: no chunk is empty or whitespace-only, and a text with no words
\* yields no chunk.
C9_NoEmptyChunk ==
    Chunked =>
        /\ \A i \in 1..Len(chunks) : Strip(chunks[i]) # <<>>
        /\ Words(text) = <<>> => chunks = <<>>

\* The first sentence exceeds the bound: an empty chunk was closed before it
C9_Witness ==
    /\ Chunked
    /\ max_chunk_size >= 1
    /\ TextSentences # <<>>
    /\ WordCount(TextSentences[1]) > max_chunk_size
    /\ Len(chunks) >= 2

----------------------------------------------------------------------------
(* Properties of the IOC extraction, stated over the returned IndicatorSet *)

Extracted == ipc = "done"

NoDuplicates(l) == \A i, j \in 1..Len(l) : l[i] = l[j] => i = j
Ascending(l) == \A i \in 1..(Len(l) - 1) : StrLess(l[i], l[i + 1])

\* C10: in the returned IndicatorSet the list of each of the ten indicator
\* types is free of duplicates and in ascending order of its strings.
C10_ListsSortedNoDuplicates ==
    Extracted =>
        /\ DOMAIN md = KeySet
        /\ \A k \in KeySet : NoDuplicates(md[k]) /\ Ascending(md[k])

\* What the code does keep: no duplicates anywhere, and the eight types
\* other than ipv4 and ipv6 ascending
C10_SortedButIp ==
    Extracted =>
        /\ DOMAIN md = KeySet
        /\ \A k \in KeySet : NoDuplicates(md[k])
        /\ \A k \in KeySet \ {"ipv4", "ipv6"} : Ascending(md[k])

\* C11: extraction is deterministic: two calls of extract_iocs on the same
\* text return the same IndicatorSet, the same values in the same order for
\* every type, whatever order the set iteration produces.
C11_SecondCallSameResult ==
    (Extracted /\ calls = 2) => md = md_prev

\* What does hold of two calls: the same values for every type, and the
\* same order for the eight types other than ipv4 and ipv6
C11_SecondCallSameValues ==
    (Extracted /\ calls = 2) =>
        /\ \A k \in KeySet : Range(md[k]) = Range(md_prev[k])
        /\ \A k \in KeySet \ {"ipv4", "ipv6"} : md[k] = md_prev[k]

----------------------------------------------------------------------------
(* Properties of the deobfuscator, stated over the input text              *)

Deobfuscated == dpc = "done"

\* One pass over the input: at each position either a scheme prefix becomes
\* http(s)://, with the s as written when keepCase, or one of `pats` becomes
\* a dot, or the character is copied.
RECURSIVE OnePass(_, _, _, _)
OnePass(s, i, pats, keepCase) ==
    IF i > Len(s) THEN <<>>
    ELSE LET n == SchemeMatchLen(s, i)
             here == {pat \in pats : OccursAt(s, i, pat)}
         IN IF n > 0
            THEN <<"h", "t", "t", "p">>
                   \o (IF n = 8 THEN <<(IF keepCase THEN s[i + 4] ELSE "s")>> ELSE <<>>)
                   \o <<":", "/", "/">>
                   \o OnePass(s, i + n, pats, keepCase)
            ELSE IF here # {}
            THEN <<".">> \o OnePass(s, i + Len(CHOOSE pat \in here : TRUE), pats, keepCase)
            ELSE <<s[i]>> \o OnePass(s, i + 1, pats, keepCase)

BracketedDots == {<<"[", ".", "]">>, <<"(", ".", ")">>, <<"{", ".", "}">>}

\* A bracketed dot, also with the dot itself written as a bracketed dot of
\* an earlier replacement: [.] inside ( ) or { }, (.) inside { }
NestedBracketedDots ==
    BracketedDots \cup
      {<<"(", "[", ".", "]", ")">>, <<"{", "[", ".", "]", "}">>,
       <<"{", "(", ".", ")", "}">>, <<"{", "(", "[", ".", "]", ")", "}">>}

\* C14 as stated: each hxxp:// or hxxps:// of the input, in any letter case,
\* becomes exactly http:// or https://, each [.], (.) or {.} of the input
\* becomes a dot, and no other character changes.
C14_RewritesInputOccurrencesOnly ==
    Deobfuscated => deob = OnePass(text, 1, BracketedDots, FALSE)

\* C14 amended: each hxxp:// or hxxps:// in any letter case becomes http://
\* or http, the s as written, ://; each [.], (.) or {.} becomes a dot, the
\* three replaced one after another in that order, so a (.) or {.} around a
\* dot that an earlier replacement produced collapses to one dot too; no
\* other character changes, and hxxps://evil[.]example[.]com becomes
\* https://evil.example.com.
C14_RewritesNestedKeepsCase ==
    Deobfuscated =>
        /\ deob = OnePass(text, 1, NestedBracketedDots, TRUE)
        /\ text = ObfuscatedExample =>
              deob = <<"h", "t", "t", "p", "s", ":", "/", "/", "e", "v", "i", "l", ".", "e", "x", "a", "m", "p", "l", "e", ".", "c", "o", "m">>

\* The documented example, rewritten
C14_Witness ==
    /\ Deobfuscated
    /\ text = ObfuscatedExample
    /\ deob = <<"h", "t", "t", "p", "s", ":", "/", "/", "e", "v", "i", "l", ".", "e", "x", "a", "m", "p", "l", "e", ".", "c", "o", "m">>

\* An upper-case S kept, and a nested bracketed dot collapsed
C14_WitnessNested ==
    /\ Deobfuscated
    /\ text = <<"(", "[", ".", "]", ")">>
    /\ deob = <<".">>

----------------------------------------------------------------------------
(* Properties of extract_iocs, stated over the text                        *)

\* The in-range port numbers among the matches, in canonical decimal
InRangePorts ==
    {ToStr(ToInt(v)) : v \in {w \in Range(vals["ports"]) : ToInt(w) \in 1..65535}}

\* C12: every value of the ports list is the decimal rendering without
\* leading zeros of an integer in [1, 65535]; a matched number that is 0 or
\* above 65535 is discarded and every other one is kept; "port 70000" gives
\* no port and "port 8080" gives "8080".
C12_PortsCanonicalInRange ==
    Extracted /\ "ports" \in DOMAIN vals =>
        /\ \A j \in 1..Len(md["ports"]) :
              LET v == md["ports"][j]
              IN /\ \A k \in 1..Len(v) : IsDigit(v[k])
                 /\ ToInt(v) \in 1..65535
                 /\ v = ToStr(ToInt(v))
        /\ Range(md["ports"]) = InRangePorts
        /\ text = Port70000 => md["ports"] = <<>>
        /\ text = Port8080 => md["ports"] = <<<<"8", "0", "8", "0">>>>

\* A text with a port of 0, a port above 65535 or a port written with a
\* leading zero among its matches, and a port kept
C12_Witness ==
    /\ Extracted
    /\ "ports" \in DOMAIN vals
    /\ \E v \in Range(vals["ports"]) : ToInt(v) \notin 1..65535
    /\ \E v \in Range(vals["ports"]) : ToInt(v) \in 1..65535 /\ v # ToStr(ToInt(v))
    /\ md["ports"] # <<>>

C12_WitnessDiscarded ==
    /\ Extracted
    /\ text = Port70000
    /\ vals["ports"] = <<<<"7", "0", "0", "0", "0">>>>
    /\ md["ports"] = <<>>

\* C13 as stated: the example text gives the cve set
\* {"CVE-2023-12345", "cve-2021-1"}.
C13_BothIdentifiersReturned ==
    Extracted /\ text = CveExample =>
        Range(md["cves"]) = {<<"C", "V", "E", "-", "2", "0", "2", "3", "-", "1", "2", "3", "4", "5">>,
                             <<"c", "v", "e", "-", "2", "0", "2", "1", "-", "1">>}

\* C13 amended: the example text gives the cve list ["CVE-2023-12345"],
\* since cve-2021-1 has one digit where the pattern needs four to seven;
\* with cve-2021-1234 in its place both identifiers are returned, matched in
\* either letter case and kept as written.
C13_FourDigitIdentifiersReturned ==
    Extracted =>
        /\ text = CveExample =>
              md["cves"] = <<<<"C", "V", "E", "-", "2", "0", "2", "3", "-", "1", "2", "3", "4", "5">>>>
        /\ text = CveExampleFourDigits =>
              md["cves"] = <<<<"C", "V", "E", "-", "2", "0", "2", "3", "-", "1", "2", "3", "4", "5">>,
                             <<"c", "v", "e", "-", "2", "0", "2", "1", "-", "1", "2", "3", "4">>>>

C13_Witness ==
    /\ Extracted
    /\ text = CveExample
    /\ md["cves"] = <<<<"C", "V", "E", "-", "2", "0", "2", "3", "-", "1", "2", "3", "4", "5">>>>

C13_WitnessLowerCase ==
    /\ Extracted
    /\ text = CveExampleFourDigits
    /\ Len(md["cves"]) = 2

----------------------------------------------------------------------------
(* Chunk boundaries                                                        *)

\* The paragraph of each sentence of TextSentences
SentenceParagraphs ==
    LET paragraphs == SplitParagraphs(Strip(text))
    IN Flatten([i \in 1..Len(paragraphs) |->
                  LET ss == SelectSeq(SplitSentences(Strip(paragraphs[i])),
                                      LAMBDA s : s # <<>>)
                  IN [k \in 1..Len(ss) |-> i]])

\* The number of sentences in the chunks before chunk i and in chunk i
RECURSIVE SentencesUpTo(_)
SentencesUpTo(i) ==
    IF i = 0 THEN 0 ELSE SentencesUpTo(i - 1) + Len(SplitSentences(chunks[i]))

\* The chunk that holds sentence k of the text
ChunkOf(k) == CHOOSE i \in 1..Len(chunks) : SentencesUpTo(i - 1) < k /\ k <= SentencesUpTo(i)

\* The words accumulated in the current chunk once sentence k is placed, if
\* chunks are cut greedily: a new chunk at a new paragraph or when the
\* words so far plus the sentence exceed max_chunk_size
RECURSIVE GreedyWords(_)
GreedyWords(k) ==
    LET w == WordCount(TextSentences[k])
    IN IF k = 1 THEN w
       ELSE IF \/ SentenceParagraphs[k] # SentenceParagraphs[k - 1]
               \/ GreedyWords(k - 1) + w > max_chunk_size
            THEN w
            ELSE GreedyWords(k - 1) + w

\* Whether the greedy cut falls between sentences k and k + 1
GreedyCut(k) ==
    \/ SentenceParagraphs[k] # SentenceParagraphs[k + 1]
    \/ GreedyWords(k) + WordCount(TextSentences[k + 1]) > max_chunk_size

\* C18: the chunks hold the sentences of the text in order, and two
\* consecutive sentences are in different chunks if and only if they are in
\* different paragraphs or the words accumulated in the current chunk plus
\* the next sentence exceed max_chunk_size.
C18_BoundariesAreGreedy ==
    Chunked =>
        /\ SentencesUpTo(Len(chunks)) = Len(TextSentences)
        /\ \A k \in 1..(Len(TextSentences) - 1) :
              (ChunkOf(k) # ChunkOf(k + 1)) <=> GreedyCut(k)

\* Two sentences of one paragraph, each within the bound, cut apart by the
\* accumulated word count
C18_Witness ==
    /\ Chunked
    /\ \E k \in 1..(Len(TextSentences) - 1) :
          /\ SentenceParagraphs[k] = SentenceParagraphs[k + 1]
          /\ WordCount(TextSentences[k]) <= max_chunk_size
          /\ WordCount(TextSentences[k + 1]) <= max_chunk_size
          /\ ChunkOf(k) # ChunkOf(k + 1)

\* Two sentences kept in one chunk
C18_WitnessTogether ==
    /\ Chunked
    /\ \E k \in 1..(Len(TextSentences) - 1) : ChunkOf(k) = ChunkOf(k + 1)

\* Two sentences within the bound together, cut apart by a paragraph break
C18_WitnessParagraph ==
    /\ Chunked
    /\ \E k \in 1..(Len(TextSentences) - 1) :
          /\ SentenceParagraphs[k] # SentenceParagraphs[k + 1]
          /\ WordCount(TextSentences[k]) + WordCount(TextSentences[k + 1]) <= max_chunk_size
          /\ ChunkOf(k) # ChunkOf(k + 1)

----------------------------------------------------------------------------
(* Properties of search                                                     *)

SearchEnded == spc \in {"returned", "raised"}

\* C19: when search has returned or raised, the client it opened is closed.
C19_ClientClosedOnEveryExit ==
    SearchEnded => client # "open"

\* What does hold: the client is closed when search returns and when
\* _filterresults raises; it is open still when the collection fetch, the
\* embedding or the query raised.
C19_ClientClosedAfterQuery ==
    /\ spc \in {"filter", "returned"} => client = "closed"
    /\ spc = "raised" /\ client = "open" => fpc = "idle"

----------------------------------------------------------------------------
(* Properties of the ingestion loop                                        *)

\* The chunks of the document in a file
ChunksOf(file) == ChunkText(content[file], IngestChunkSize)

\* The stored objects that record chunk c of the document in a file
RecordsOf(file, c) ==
    {j \in 1..Len(store) :
        /\ store[j].properties["doc_name"] = file
        /\ store[j].properties["doc_id"] = Sha256(content[file])
        /\ store[j].properties["text"] = c}

\* C15: over any sequence of runs the store holds no second record for a
\* chunk of a document: a chunk has as many records as the document has
\* chunks with that text.
C15_NoSecondRecord ==
    \A file \in DOMAIN content : \A c \in Range(ChunksOf(file)) :
        Cardinality(RecordsOf(file, c))
            <= Cardinality({k \in 1..Len(ChunksOf(file)) : ChunksOf(file)[k] = c})

\* A run after an abort or a failed rename has stored a chunk again
C15_StoredAgain ==
    /\ runs = 2
    /\ \E file \in DOMAIN content : \E c \in Range(ChunksOf(file)) :
          Cardinality(RecordsOf(file, c)) > Len(ChunksOf(file))

\* Within one run no chunk is recorded twice: the records a run adds for a
\* file are one per chunk at most
C15_NoSecondRecordInOneRun ==
    \A file \in DOMAIN content :
        Cardinality({p \in 1..Len(log) : log[p].op = "insert" /\ log[p].file = file})
            <= Len(ChunksOf(file))

\* The positions of the log at which text extraction of a document starts
Extractions == {p \in 1..Len(log) : log[p].op = "extract"}

\* C16: in a run, when text extraction of a document starts every chunk of
\* every document extracted before it has been inserted, in chunk order
\* right after its own extraction; and once an embedding call or an insert
\* has raised, the run inserts and renames nothing more.
C16_OneDocumentAfterAnother ==
    /\ \A p \in Extractions : \A q \in Extractions :
          q < p =>
             LET n == Len(ChunksOf(log[q].file))
             IN /\ q + n < p
                /\ \A k \in 1..n : log[q + k] = Event("insert", log[q].file, k)
                /\ \A j \in (q + 1)..(p - 1) : log[j].op # "extract" => log[j].file = log[q].file
    /\ \A p \in 1..Len(log) : log[p].op = "raise" => p = Len(log) /\ gpc = "aborted"
    /\ gpc = "aborted" => log # <<>> /\ log[Len(log)].op = "raise"

C16_StopsAfterRaise ==
    [][gpc = "aborted" /\ runs' = runs => store' = store /\ dir' = dir /\ gpc' = "aborted"]_vars

\* Two documents ingested one after the other in a run
C16_Witness ==
    /\ Cardinality(Extractions) = 2
    /\ \E p \in 1..Len(log) : log[p].op = "insert" /\ log[p].chunk = 2
    /\ gpc = "rename"

\* A run that stopped at the second chunk of a document, the first stored
C16_WitnessAborted ==
    /\ gpc = "aborted"
    /\ log[Len(log)].chunk = 2
    /\ Len(store) >= 1

\* The objects inserted for the document in hand: the last ci - 1
InsertedForDocument == SubSeq(store, Len(store) - (ci - 1) + 1, Len(store))

\* C17: when the chunk loop of a document ends, the loop has inserted one
\* record per chunk of the document, in chunk order and nothing else, all
\* with the file's name, the hash of its text and one indicator set, that
\* of the full text.
C17_OneRecordPerChunk ==
    gpc = "rename" =>
        LET file == filenames[fidx]
            full == content[file]
            cs == ChunksOf(file)
            n == Len(cs)
        IN /\ ci - 1 = n
           /\ n <= Len(store)
           /\ \E iocs \in ExtractIocs(full) :
                 \A k \in 1..n :
                    LET props == InsertedForDocument[k].properties
                    IN /\ props["text"] = cs[k]
                       /\ props["doc_name"] = file
                       /\ props["doc_id"] = Sha256(full)
                       /\ \A key \in KeySet : props[key] = iocs[key]
                       /\ \A v \in Range(props["iocs"]) :
                             \E key \in KeySet : v \in Range(iocs[key])
           /\ {p \in 1..Len(log) : log[p].op = "insert" /\ log[p].file = file}
                 = {Max(Extractions) + k : k \in 1..n}

\* A document of two chunks with different ports is ingested: each chunk
\* alone has another indicator set than the document
C17_Witness ==
    /\ gpc = "rename"
    /\ Len(doc_chunks) = 2
    /\ Len(extracted_iocs["ports"]) = 2
    /\ extracted_iocs \notin ExtractIocs(doc_chunks[1])
    /\ extracted_iocs \notin ExtractIocs(doc_chunks[2])

====
